---- MODULE Spec2Model ----
(***************************************************************************)
(* Exercises/Exercise-1/main.py: fetch a fixed list of zip archives,       *)
(* unpack each one into the downloads directory and delete the archive,    *)
(* under one of three orchestrators (main_sync, main_threaded, main_async).*)
(*                                                                         *)
(* The environment is nondeterministic: every HTTP request, every file     *)
(* write, every archive and every os.remove may succeed or fail, and the   *)
(* outcome is chosen when the step that observes it is taken.              *)
(* Path("downloads").mkdir(exist_ok=True) is taken to succeed and the      *)
(* directory starts without archive files.                                 *)
(***************************************************************************)
EXTENDS Integers, Sequences, FiniteSets, TLC

\* ------------------------------------------------------------------ bounds
\* How many entries of download_uris (a prefix of the list) a run processes.
NumUris == 4
\* ------------------------------------------------------- program constants
\* ThreadPoolExecutor(max_workers=3)
MaxWorkers == 3

\* -------------------------------------------------------------- locators
\* A URI is the sequence of its tokens, "/" being a token of its own.
Uri(name) == <<"https:", "/", "/", "divvy-tripdata.s3.amazonaws.com", "/", name>>

AllUris ==
  << Uri("Divvy_Trips_2018_Q4.zip"),
     Uri("Divvy_Trips_2019_Q1.zip"),
     Uri("Divvy_Trips_2019_Q2.zip"),
     Uri("Divvy_Trips_2019_Q3.zip"),
     Uri("Divvy_Trips_2019_Q4.zip"),
     Uri("Divvy_Trips_2020_Q1.zip"),
     Uri("Divvy_Trips_2220_Q1.zip") >>

Min(a, b) == IF a < b THEN a ELSE b

download_uris == SubSeq(AllUris, 1, Min(NumUris, Len(AllUris)))

N == Len(download_uris)
Idx == 1..N

\* str.split('/'): the segments between the separators (a segment is the
\* sequence of its tokens, <<>> for an empty one).
RECURSIVE Split(_, _, _)
Split(s, cur, acc) ==
  IF s = <<>> THEN Append(acc, cur)
  ELSE IF Head(s) = "/" THEN Split(Tail(s), <<>>, Append(acc, cur))
  ELSE Split(Tail(s), Append(cur, Head(s)), acc)

extract_filename_from_uri_host(uri) ==
  LET parts == Split(uri, <<>>, <<>>) IN parts[Len(parts) - 1]
extract_filename_from_uri(uri) ==
  LET parts == Split(uri, <<>>, <<>>) IN parts[Len(parts)]

\* filepath = downloads_dir / filename
filepath(i) == extract_filename_from_uri(download_uris[i])

Paths == {filepath(i) : i \in Idx}

\* ----------------------------------------------------------------- state
VARIABLES
  opc,          \* position of the main thread: "main", then the orchestrator's
  strategy,     \* "none", "sync", "threaded", "async"
  exc,          \* an exception is propagating in the main thread
  cur,          \* main_sync: index of the for loop
  submitted,    \* main_threaded: number of units submitted to the executor
  sessionOpen,  \* main_async: the aiohttp.ClientSession is open
  unit,         \* per locator: position of download_and_extract_(a)sync
  fetchState,   \* per locator: "notstarted","inflight","path","None","raised","cancelled"
  cause,        \* per locator: why the fetch did not return a path
  fetchCount,   \* per locator: number of HTTP requests issued
  extractState, \* per locator: "notcalled","running","list","None","raised"
  extractCount, \* per locator: number of calls of extract_zip_file
  namelist,     \* per locator: the list extract_zip_file returned
  failures,     \* per locator: number of "Failed to ..." messages printed
  successes,    \* per locator: number of "Extracted and cleaned up" messages
  zip,          \* archive path -> "absent", "partial", "complete"
  input,        \* what the terminal will answer main(): isatty, the line, EOF
  prompted,     \* main() printed the menu and called input()
  started,      \* number of orchestrators started in this execution
  run,          \* number of the execution of the program (1: the first)
  prevDir,      \* the downloads directory as the previous execution left it
  payload       \* per locator: what the remote resource is, when it is fixed

\* State of the process and of what outlives it.
procVars == <<input, prompted, started, run, prevDir, payload>>
mainVars == <<opc, strategy, exc, procVars>>
orchVars == <<cur, submitted, sessionOpen>>
fetchVars == <<fetchState, cause, fetchCount>>
extractVars == <<extractState, extractCount, namelist, successes>>
vars == <<mainVars, orchVars, unit, fetchVars, extractVars, failures, zip>>

\* Lines typed at the prompt, as sequences of characters.
Lines == { <<>>, <<"1">>, <<"2">>, <<"3">>, <<" ", "2">>, <<"3", " ">>,
           <<"2", "3">>, <<"x">> }

\* What stdin is: a terminal or not, the line typed, or end of file.
Inputs == [tty : BOOLEAN, line : Lines, eof : BOOLEAN]
\* A stdin that is no terminal and holds nothing; also what is left of the
\* input once main() has read it.
NoInput == [tty |-> FALSE, line |-> <<>>, eof |-> FALSE]

\* The directory holds no archive and no extracted file.
EmptyDir == [archives |-> [p \in Paths |-> "absent"], files |-> {}]

\* The state of an execution before main() is called.
Fresh ==
  /\ opc = "main"
  /\ strategy = "none"
  /\ exc = FALSE
  /\ cur = 1
  /\ submitted = 0
  /\ sessionOpen = FALSE
  /\ unit = [i \in Idx |-> "idle"]
  /\ fetchState = [i \in Idx |-> "notstarted"]
  /\ cause = [i \in Idx |-> "none"]
  /\ fetchCount = [i \in Idx |-> 0]
  /\ extractState = [i \in Idx |-> "notcalled"]
  /\ extractCount = [i \in Idx |-> 0]
  /\ namelist = [i \in Idx |-> <<>>]
  /\ failures = [i \in Idx |-> 0]
  /\ successes = [i \in Idx |-> 0]
  /\ prompted = FALSE
  /\ started = 0

\* The first execution, in an empty directory, on any input; the remote
\* resources are not fixed (every request chooses its answer).
Init ==
  /\ Fresh
  /\ zip = [p \in Paths |-> "absent"]
  /\ input \in Inputs
  /\ run = 1
  /\ prevDir = EmptyDir
  /\ payload = [i \in Idx |-> "any"]

\* ------------------------------------------------------------------ main
IsSpace(c) == c \in {" ", "\t"}

RECURSIVE LStrip(_)
LStrip(s) == IF s # <<>> /\ IsSpace(Head(s)) THEN LStrip(Tail(s)) ELSE s

RECURSIVE RStrip(_)
RStrip(s) ==
  IF s # <<>> /\ IsSpace(s[Len(s)]) THEN RStrip(SubSeq(s, 1, Len(s) - 1)) ELSE s

\* str.strip()
strip_none(s) == s
strip(s) == RStrip(LStrip(s))

\* The orchestrator main() calls for a stripped choice.
Selected(c) ==
  IF c = <<"2">> THEN "threaded" ELSE IF c = <<"3">> THEN "async" ELSE "sync"

\* Position of an orchestrator right after create_downloads_directory().
Entry(s) == IF s = "threaded" THEN "submit" ELSE IF s = "async" THEN "gather" ELSE "loop"

\* The orchestrator main() runs on an input: the sequential one when stdin
\* is no terminal or input() raises EOFError (caught), else the selected one.
Dispatch(in) ==
  IF in.tty /\ ~in.eof THEN Selected(strip(in.line)) ELSE "sync"

\* Path("downloads").mkdir(exist_ok=True) raises when the directory exists
\* (it does when an earlier execution created it): never.
MkdirRaises_strict(exists) == exists
MkdirRaises(exists) == FALSE

\* main() up to the entry of the orchestrator, create_downloads_directory()
\* included.
main ==
  /\ opc = "main"
  /\ prompted' = input.tty
  /\ input' = NoInput
  /\ strategy' = Dispatch(input)
  /\ started' = started + 1
  /\ IF MkdirRaises(run > 1)
       THEN opc' = "crashed" /\ exc' = TRUE /\ UNCHANGED sessionOpen
       ELSE /\ opc' = Entry(strategy')
            /\ sessionOpen' = (strategy' = "async")
            /\ UNCHANGED exc
  /\ UNCHANGED <<run, prevDir, payload, cur, submitted, unit, fetchVars,
                 extractVars, failures, zip>>

\* ------------------------------------------------------------- the fetcher
\* What the server and the filesystem answer to the GET and the open():
\* "ok" (2xx, file opened), "http" (raise_for_status raises on a 4xx or 5xx
\* status), "openfail" (open() raises OSError). A request that gets no
\* response (timeout, DNS, reset) raises from the same statement group, is
\* caught by the same clause and is not told apart from "http".
GetOutcomes == {"ok", "http", "openfail"}
\* How the streaming of the body ends: "ok", "stream" (the connection breaks
\* while reading a chunk), "write" (f.write raises OSError).
BodyOutcomes == {"ok", "stream", "write"}

\* The except clause of the fetcher: requests.exceptions.RequestException in
\* download_file_sync, Exception in download_file_async.
Caught_all(s, e) == TRUE
Caught(s, e) ==
  IF s = "async" THEN TRUE ELSE e \in {"http", "stream"}

\* The except clause prints one "Failed to download" message.
Printed_silent(caught) == 0
Printed(caught) == IF caught THEN 1 ELSE 0

\* The target file is opened (created or truncated) only after
\* raise_for_status() has passed.
OpensFile_early(r) == r \in {"ok", "http"}
OpensFile(r) == r = "ok"

\* if zip_filepath: ... extract
CallsExtract_always(ret) == TRUE
CallsExtract(ret) == ret = "path"

\* await loop.run_in_executor(None, extract_zip_file, zip_filepath): the
\* extraction runs on a thread of the default executor, so the event loop
\* is not held while an extraction runs.
ExtractBlocksLoop_inline == \E k \in Idx : extractState[k] = "running"
ExtractBlocksLoop == FALSE

\* The steps of a unit are taken by its thread; a task of main_async steps
\* on the event loop, while main_async awaits gather() and after every task
\* has been started.
CanStep_eager(i) == strategy = "async" => opc = "gather"
CanStep(i) ==
  strategy = "async" =>
    (opc = "gather" /\ ~ExtractBlocksLoop /\ \A j \in Idx : unit[j] # "idle")

\* print "Downloading", issue the GET.
FetchStart(i) ==
  /\ unit' = [unit EXCEPT ![i] = "connecting"]
  /\ fetchState' = [fetchState EXCEPT ![i] = "inflight"]
  /\ fetchCount' = [fetchCount EXCEPT ![i] = @ + 1]
  /\ UNCHANGED <<cause, extractVars, failures, zip>>

\* The fetcher has returned ret ("path" or "None") to download_and_extract,
\* which calls (or dispatches) extract_zip_file, or returns.
AfterFetch(i, ret) ==
  /\ unit' = [unit EXCEPT ![i] = IF CallsExtract(ret) THEN "extracting" ELSE "done"]
  /\ extractState' = [extractState EXCEPT ![i] = IF CallsExtract(ret) THEN "running" ELSE @]
  /\ extractCount' = [extractCount EXCEPT ![i] = IF CallsExtract(ret) THEN @ + 1 ELSE @]

\* The fetch of unit i ends with error e: caught (message, return None) or
\* propagating out of the unit.
FetchError(i, e) ==
  /\ cause' = [cause EXCEPT ![i] = e]
  /\ IF Caught(strategy, e)
       THEN /\ fetchState' = [fetchState EXCEPT ![i] = "None"]
            /\ failures' = [failures EXCEPT ![i] = @ + Printed(TRUE)]
            /\ AfterFetch(i, "None")
       ELSE /\ fetchState' = [fetchState EXCEPT ![i] = "raised"]
            /\ unit' = [unit EXCEPT ![i] = "raised"]
            /\ UNCHANGED <<failures, extractState, extractCount>>
  /\ UNCHANGED <<fetchCount, namelist, successes>>

\* download_file_sync / download_file_async up to the opening of the file.
download_file_get(i, r) ==
  /\ unit[i] = "connecting"
  /\ CanStep(i)
  /\ zip' = IF OpensFile(r) THEN [zip EXCEPT ![filepath(i)] = "partial"] ELSE zip
  /\ IF r = "ok"
       THEN /\ unit' = [unit EXCEPT ![i] = "writing"]
            /\ UNCHANGED <<fetchVars, extractVars, failures>>
       ELSE FetchError(i, IF r = "openfail" THEN "write" ELSE r)
  /\ UNCHANGED <<mainVars, orchVars>>

\* The chunk loop, the closing of the file and the return of the path.
download_file_write(i, r) ==
  /\ unit[i] = "writing"
  /\ CanStep(i)
  /\ IF r = "ok"
       THEN /\ zip' = [zip EXCEPT ![filepath(i)] = "complete"]
            /\ fetchState' = [fetchState EXCEPT ![i] = "path"]
            /\ AfterFetch(i, "path")
            /\ UNCHANGED <<cause, fetchCount, namelist, successes, failures>>
       ELSE /\ FetchError(i, r)
            /\ UNCHANGED zip
  /\ UNCHANGED <<mainVars, orchVars>>

\* ------------------------------------------------------------ the unpacker
\* What the archive is: "valid", "corrupt" (zipfile.BadZipFile on opening),
\* "ioerr" (extractall raises on an entry).
Archives == {"valid", "corrupt", "ioerr"}
\* The entry names an archive may hold (zip_ref.namelist()).
Contents == {<<>>, <<"a.csv", "b.csv">>}

\* The try block runs to its end: the archive opens, extractall and
\* os.remove (rm1: it succeeds) pass.
TryPasses(arch, rm1) == arch = "valid" /\ rm1

\* The archive file after the try block, entered with the file in state z.
AfterTry_keep(z, arch, rm1) == z
AfterTry(z, arch, rm1) == IF TryPasses(arch, rm1) THEN "absent" ELSE z

\* The except block: if zip_filepath.exists(): os.remove(zip_filepath)
\* (rm2: os.remove succeeds).
AfterHandler_keep(z, rm2) == z
AfterHandler(z, rm2) == IF z # "absent" /\ rm2 THEN "absent" ELSE z

\* os.remove raises in the except block: nothing catches it.
HandlerRaises(z, rm2) == z # "absent" /\ ~rm2

\* extract_zip_file(zip_filepath) on an archive of entries names, from the
\* opening of the archive to the return; its caller (the unit, unless
\* cancelled meanwhile) then ends. (The parameters a path does not read are
\* fixed: names and rm1 when the archive does not open or extractall
\* raises, rm2 when the except block is not entered.)
extract_zip_file(i, arch, names, rm1, rm2) ==
  /\ extractState[i] = "running"
  /\ arch # "valid" => (names = <<>> /\ rm1)
  /\ TryPasses(arch, rm1) => rm2
  /\ zip[filepath(i)] # "complete" => arch = "corrupt"
  /\ LET z0 == zip[filepath(i)]
         z1 == AfterTry(z0, arch, rm1)
         ok == TryPasses(arch, rm1)
         raises == ~ok /\ HandlerRaises(z1, rm2)
     IN /\ zip' = [zip EXCEPT ![filepath(i)] = IF ok THEN z1 ELSE AfterHandler(z1, rm2)]
        /\ successes' = [successes EXCEPT ![i] = IF ok THEN @ + 1 ELSE @]
        /\ failures' = [failures EXCEPT ![i] = IF ok THEN @ ELSE @ + 1]
        /\ namelist' = [namelist EXCEPT ![i] = IF ok THEN names ELSE @]
        /\ extractState' = [extractState EXCEPT ![i] =
                              IF ok THEN "list" ELSE IF raises THEN "raised" ELSE "None"]
        /\ unit' = [unit EXCEPT ![i] =
                      IF @ # "extracting" THEN @ ELSE IF raises THEN "raised" ELSE "done"]
  /\ UNCHANGED <<mainVars, orchVars, fetchVars, extractCount>>

\* ------------------------------------------------------------- main_sync
\* for uri in download_uris: download_and_extract_sync(uri, downloads_dir)
main_sync_call ==
  /\ opc = "loop"
  /\ unit[cur] = "idle"
  /\ FetchStart(cur)
  /\ UNCHANGED <<mainVars, orchVars>>

\* The call for the current locator returned: next locator, or the end.
main_sync_next_break ==
  /\ opc = "loop"
  /\ unit[cur] = "done"
  /\ IF cur < N /\ failures[cur] = 0
       THEN cur' = cur + 1 /\ UNCHANGED opc
       ELSE opc' = "done" /\ UNCHANGED cur
  /\ UNCHANGED <<procVars, strategy, exc, submitted, sessionOpen, unit,
                 fetchVars, extractVars, failures, zip>>

main_sync_next ==
  /\ opc = "loop"
  /\ unit[cur] = "done"
  /\ IF cur < N
       THEN cur' = cur + 1 /\ UNCHANGED opc
       ELSE opc' = "done" /\ UNCHANGED cur
  /\ UNCHANGED <<procVars, strategy, exc, submitted, sessionOpen, unit,
                 fetchVars, extractVars, failures, zip>>

\* The call for the current locator raised: nothing in main_sync or main
\* catches it.
main_sync_raise ==
  /\ opc = "loop"
  /\ unit[cur] = "raised"
  /\ opc' = "crashed"
  /\ exc' = TRUE
  /\ UNCHANGED <<procVars, strategy, orchVars, unit, fetchVars,
                 extractVars, failures, zip>>

\* --------------------------------------------------------- main_threaded
\* A unit has run to its end (returned, raised or cancelled).
Finished(i) == unit[i] \in {"done", "raised", "cancelled"}

\* executor.submit(download_and_extract_sync, uri, downloads_dir)
submit ==
  /\ opc = "submit"
  /\ submitted' = submitted + 1
  /\ opc' = IF submitted' = N THEN "await" ELSE "submit"
  /\ UNCHANGED <<procVars, strategy, exc, cur, sessionOpen, unit,
                 fetchVars, extractVars, failures, zip>>

\* The executor's work queue is first in, first out: the unit a free worker
\* takes is the earliest submitted one that no worker has taken.
Queued == {i \in Idx : i <= submitted /\ unit[i] = "idle"}
NextQueued_lifo == CHOOSE i \in Queued : \A j \in Queued : i >= j
NextQueued == CHOOSE i \in Queued : \A j \in Queued : i <= j

\* The units the worker threads are running: a thread runs one unit from
\* its first statement to its return or its exception.
Busy == {i \in Idx : unit[i] \in {"connecting", "writing", "extracting"}}

\* The pool holds at most max_workers threads, each running one unit at a
\* time: a unit is taken from the queue only by a thread that runs none.
WorkerFree_unbounded == TRUE
WorkerFree == Cardinality(Busy) < MaxWorkers

\* A worker thread of the pool takes the next unit from the queue.
worker_take ==
  /\ strategy = "threaded"
  /\ WorkerFree
  /\ Queued # {}
  /\ FetchStart(NextQueued)
  /\ UNCHANGED <<mainVars, orchVars>>

\* for future in futures: future.result(). result() blocks until its unit
\* has ended and re-raises the unit's exception: the loop is left by the
\* first future, in list order, whose unit raised, or after the last one.
\* Leaving it enters ThreadPoolExecutor.__exit__.
FirstRaised(i) == unit[i] = "raised" /\ \A j \in Idx : j < i => unit[j] = "done"

\* Every unit has returned, whether its locator succeeded or failed: a
\* reported failure is a return (of None), not an exception.
AllReturned_clean == \A i \in Idx : unit[i] = "done" /\ failures[i] = 0
AllReturned == \A i \in Idx : unit[i] = "done"

future_result ==
  /\ opc = "await"
  /\ \/ (\E i \in Idx : FirstRaised(i)) /\ exc' = TRUE
     \/ AllReturned /\ UNCHANGED exc
  /\ opc' = "shutdown"
  /\ UNCHANGED <<procVars, strategy, orchVars, unit, fetchVars,
                 extractVars, failures, zip>>

\* ThreadPoolExecutor.__exit__ is shutdown(wait=True): pending units still
\* run, and the worker threads are joined.
JoinAll_nowait == TRUE
JoinAll == \A i \in Idx : Finished(i)

shutdown ==
  /\ opc = "shutdown"
  /\ JoinAll
  /\ opc' = IF exc THEN "crashed" ELSE "done"
  /\ UNCHANGED <<procVars, strategy, exc, orchVars, unit, fetchVars,
                 extractVars, failures, zip>>

\* ------------------------------------------------------------ main_async
\* asyncio.gather(*tasks) wraps the coroutines in tasks; the loop starts
\* them in list order, each running up to its first suspension (the GET).
task_start(i) ==
  /\ opc = "gather"
  /\ unit[i] = "idle"
  /\ \A j \in Idx : j < i => unit[j] # "idle"
  /\ FetchStart(i)
  /\ UNCHANGED <<mainVars, orchVars>>

\* Every task returned: gather returns, the session is closed, main_async
\* returns.
gather_done ==
  /\ opc = "gather"
  /\ AllReturned
  /\ sessionOpen' = FALSE
  /\ opc' = "done"
  /\ UNCHANGED <<procVars, strategy, exc, cur, submitted, unit,
                 fetchVars, extractVars, failures, zip>>

\* gather() without return_exceptions: the first exception of a task is
\* raised in main_async at once; the async with block closes the session and
\* the exception leaves main_async.
GatherRaises == \E i \in Idx : unit[i] = "raised"

gather_raise ==
  /\ opc = "gather"
  /\ GatherRaises
  /\ exc' = TRUE
  /\ sessionOpen' = FALSE
  /\ opc' = "cancelling"
  /\ UNCHANGED <<procVars, strategy, cur, submitted, unit, fetchVars,
                 extractVars, failures, zip>>

\* asyncio.run(): main_async raised, so every task still pending is
\* cancelled (CancelledError is no Exception: the fetcher does not catch
\* it). An extraction already running on the executor is not stopped.
Pending(i) == unit[i] \in {"idle", "connecting", "writing", "extracting"}

cancel_all ==
  /\ opc = "cancelling"
  /\ unit' = [i \in Idx |-> IF Pending(i) THEN "cancelled" ELSE unit[i]]
  /\ fetchState' = [i \in Idx |-> IF fetchState[i] = "inflight" THEN "cancelled" ELSE fetchState[i]]
  /\ opc' = "joining"
  /\ UNCHANGED <<procVars, strategy, exc, orchVars, cause, fetchCount,
                 extractVars, failures, zip>>

\* asyncio.run() shuts the default executor down, which waits for the
\* extractions running on it; then the exception leaves main().
async_exit ==
  /\ opc = "joining"
  /\ \A i \in Idx : extractState[i] # "running"
  /\ opc' = "crashed"
  /\ UNCHANGED <<procVars, strategy, exc, orchVars, unit, fetchVars,
                 extractVars, failures, zip>>

\* ------------------------------------------------------------------ spec
Next ==
  \/ main
  \/ \E i \in Idx, r \in GetOutcomes : download_file_get(i, r)
  \/ \E i \in Idx, r \in BodyOutcomes : download_file_write(i, r)
  \/ \E i \in Idx, arch \in Archives, names \in Contents,
        rm1 \in BOOLEAN, rm2 \in BOOLEAN : extract_zip_file(i, arch, names, rm1, rm2)
  \/ main_sync_call
  \/ main_sync_next
  \/ main_sync_raise
  \/ submit
  \/ worker_take
  \/ future_result
  \/ shutdown
  \/ \E i \in Idx : task_start(i)
  \/ gather_done
  \/ gather_raise
  \/ cancel_all
  \/ async_exit

Spec == Init /\ [][Next]_vars

\* Every thread and every task that can take a step eventually takes one;
\* every request, write and extraction ends.
FairSpec == Spec /\ WF_vars(Next)

\* ------------------------------------------------- two executions in a row
\* What a locator's remote resource is when it does not change: "missing"
\* (the server answers 404), "corrupt" (a body that is no zip archive),
\* "empty" (an archive without entries), "csv" (an archive of two files),
\* "cut" (the server drops the connection in the middle of the body).
Payloads == {"missing", "corrupt", "empty", "csv", "cut"}
GetOf(pl) == IF pl = "missing" THEN "http" ELSE "ok"
BodyOf(pl) == IF pl = "cut" THEN "stream" ELSE "ok"
ArchiveOf(pl) == IF pl = "corrupt" THEN "corrupt" ELSE "valid"
NamesOf(pl) == IF pl = "csv" THEN <<"a.csv", "b.csv">> ELSE <<>>

Range(f) == {f[k] : k \in DOMAIN f}

\* The downloads directory: the archive files, and the extracted files (the
\* ones the earlier execution left and the ones extractall() wrote, a file
\* of the same name being overwritten).
Directory ==
  [archives |-> zip,
   files |-> prevDir.files \cup
             UNION {Range(namelist[i]) : i \in {k \in Idx : extractState[k] = "list"}}]

\* The state a call of an orchestrator starts from: no unit has run.
StartOver ==
  /\ cur' = 1
  /\ submitted' = 0
  /\ unit' = [i \in Idx |-> "idle"]
  /\ fetchState' = [i \in Idx |-> "notstarted"]
  /\ cause' = [i \in Idx |-> "none"]
  /\ fetchCount' = [i \in Idx |-> 0]
  /\ extractState' = [i \in Idx |-> "notcalled"]
  /\ extractCount' = [i \in Idx |-> 0]
  /\ namelist' = [i \in Idx |-> <<>>]
  /\ failures' = [i \in Idx |-> 0]
  /\ successes' = [i \in Idx |-> 0]

\* The program has ended and is executed again (python main.py, twice), on
\* the directory the first execution left and with stdin no terminal.
rerun ==
  /\ opc \in {"done", "crashed"}
  /\ run = 1
  /\ run' = 2
  /\ prevDir' = Directory
  /\ opc' = "main"
  /\ strategy' = "none"
  /\ exc' = FALSE
  /\ sessionOpen' = FALSE
  /\ input' = NoInput
  /\ prompted' = FALSE
  /\ started' = 0
  /\ StartOver
  /\ UNCHANGED <<zip, payload>>

\* The sequential strategy (stdin is no terminal), every remote resource
\* being fixed and the local file system working.
InitTwice ==
  /\ Fresh
  /\ zip = [p \in Paths |-> "absent"]
  /\ input = NoInput
  /\ run = 1
  /\ prevDir = EmptyDir
  /\ payload \in [Idx -> Payloads]

NextTwice ==
  \/ main
  \/ main_sync_call
  \/ \E i \in Idx : download_file_get(i, GetOf(payload[i]))
  \/ \E i \in Idx : download_file_write(i, BodyOf(payload[i]))
  \/ \E i \in Idx : extract_zip_file(i, ArchiveOf(payload[i]), NamesOf(payload[i]), TRUE, TRUE)
  \/ main_sync_next
  \/ rerun

SpecTwice == InitTwice /\ [][NextTwice]_vars

\* ------------------------------------------------------- KeyboardInterrupt
\* Ctrl-C while the main thread is inside the orchestrator that main()
\* called from its try block. KeyboardInterrupt is no Exception: neither
\* except clause of a unit catches it. main_sync: it leaves the unit being
\* run. main_threaded: it is raised in the main thread only.
\* asyncio.run(): the tasks are cancelled and the session is closed.
keyboard_interrupt ==
  /\ opc \in {"loop", "submit", "await", "gather"}
  /\ started = 1
  /\ exc' = TRUE
  /\ opc' = "interrupted"
  /\ sessionOpen' = FALSE
  /\ unit' = [i \in Idx |->
                IF strategy = "sync" /\ i = cur /\ unit[i] \in {"connecting", "writing", "extracting"}
                  THEN "raised"
                ELSE IF strategy = "async" /\ Pending(i) THEN "cancelled"
                ELSE unit[i]]
  /\ fetchState' = [i \in Idx |->
                IF fetchState[i] # "inflight" \/ strategy = "threaded" THEN fetchState[i]
                ELSE IF strategy = "sync" THEN "raised" ELSE "cancelled"]
  /\ extractState' = [i \in Idx |->
                IF strategy = "sync" /\ extractState[i] = "running" THEN "raised"
                ELSE extractState[i]]
  /\ UNCHANGED <<procVars, strategy, cur, submitted, cause, fetchCount,
                 extractCount, namelist, successes, failures, zip>>

\* except (EOFError, KeyboardInterrupt): main_sync(). The exception reaches
\* the clause once the orchestrator is left: ThreadPoolExecutor.__exit__ has
\* joined the workers, asyncio.run() has shut the default executor down.
main_except ==
  /\ opc = "interrupted"
  /\ Busy = {} /\ Queued = {}
  /\ \A i \in Idx : extractState[i] # "running"
  /\ started' = started + 1
  /\ strategy' = "sync"
  /\ opc' = "loop"
  /\ exc' = FALSE
  /\ sessionOpen' = FALSE
  /\ StartOver
  /\ UNCHANGED <<input, prompted, run, prevDir, payload, zip>>

NextInterrupt == Next \/ keyboard_interrupt \/ main_except

SpecInterrupt == Init /\ [][NextInterrupt]_vars

TypeOK ==
  /\ opc \in {"main", "loop", "submit", "await", "shutdown", "gather",
              "cancelling", "joining", "interrupted", "done", "crashed"}
  /\ strategy \in {"none", "sync", "threaded", "async"}
  /\ unit \in [Idx -> {"idle", "connecting", "writing", "extracting", "done",
                       "raised", "cancelled"}]
  /\ zip \in [Paths -> {"absent", "partial", "complete"}]
  /\ \A i \in Idx : fetchCount[i] \in 0..1 /\ namelist[i] \in Contents
  /\ input \in Inputs
  /\ prompted \in BOOLEAN
  /\ started \in 0..2
  /\ run \in 1..2

\* ---------------------------------------------------------------- claims
\* The run is over: main() returned ("done") or an exception left it.
Ended == opc \in {"done", "crashed"}

\* extract_zip_file returned the list of entry names for locator i.
Extracted(i) == extractState[i] = "list"
ExtractedNonEmpty(i) == Extracted(i) /\ namelist[i] # <<>>
\* A "Failed to download" or "Failed to extract" message was printed for i.
FailureRecorded(i) == failures[i] > 0
\* A fetch or an extraction of locator i is in progress.
InProgress(i) == unit[i] \in {"connecting", "writing", "extracting"} \/ extractState[i] = "running"

\* C1 as stated, for the runs that finish without an uncaught exception:
\* every locator has exactly one of a non-empty extraction result and a
\* failure record.
C1_ExactlyOneNonEmpty ==
  opc = "done" => \A i \in Idx : ExtractedNonEmpty(i) # FailureRecorded(i)

\* C1 amended: no locator ever has both an extraction result and a failure
\* record, and when the run has finished without an uncaught exception every
\* locator has exactly one of the two, the extraction result being the list
\* of entry names, empty for an archive without entries.
C1_ExactlyOne ==
  /\ \A i \in Idx : ~(Extracted(i) /\ FailureRecorded(i))
  /\ opc = "done" => \A i \in Idx : Extracted(i) # FailureRecorded(i)

\* A finished run with an empty result, a non-empty result and a failure.
C1_Witness ==
  /\ opc = "done"
  /\ \E i \in Idx : Extracted(i) /\ namelist[i] = <<>>
  /\ \E i \in Idx : ExtractedNonEmpty(i)
  /\ \E i \in Idx : FailureRecorded(i) /\ ~Extracted(i)

\* C2 as stated: after any call of extract_zip_file has finished (returned
\* or raised), the archive file no longer exists.
C2_AbsentAfterAnyCall ==
  \A i \in Idx : extractState[i] \in {"list", "None", "raised"} => zip[filepath(i)] = "absent"

\* C2 amended: after any call of extract_zip_file that has returned, with
\* the entry names or with the failure value None, the archive file no
\* longer exists.
C2_AbsentAfterReturn ==
  \A i \in Idx : extractState[i] \in {"list", "None"} => zip[filepath(i)] = "absent"

\* One extraction returned its entries and another one returned a failure.
C2_Witness ==
  \E i, j \in Idx : extractState[i] = "list" /\ extractState[j] = "None"

\* C3: in the pooled and the cooperative strategy no locator's fetch is
\* started twice, and when the run has finished every locator's fetch has
\* been started once.
C3_FetchedOnce ==
  strategy \in {"threaded", "async"} =>
    /\ \A i \in Idx : fetchCount[i] <= 1
    /\ Ended => \A i \in Idx : fetchCount[i] = 1

\* A cooperative run ended by an exception, a sibling's fetch having failed
\* without a second request.
C3_Witness ==
  /\ strategy = "async" /\ opc = "crashed"
  /\ \E i \in Idx : fetchState[i] = "None" /\ fetchCount[i] = 1
  /\ \E i \in Idx : unit[i] = "cancelled"

\* C4: in the pooled strategy no unit is cancelled, and main_threaded has
\* returned or raised only when every unit has returned or raised.
C4_JoinAll ==
  strategy = "threaded" =>
    /\ \A i \in Idx : unit[i] # "cancelled"
    /\ Ended => \A i \in Idx : unit[i] \in {"done", "raised"}

\* The exception of a unit is propagating out of the result loop while
\* another unit is still queued.
C4_Witness ==
  /\ strategy = "threaded" /\ opc = "shutdown" /\ exc
  /\ \E i \in Idx : unit[i] = "idle"

\* C5 as stated: in the cooperative strategy no task is ever cancelled
\* (every started task runs to its own completion or failure).
C5_NoSiblingCancelled ==
  strategy = "async" => \A i \in Idx : unit[i] # "cancelled"

\* Sequential order: a locator is started only when every earlier one has
\* returned.
InOrder == \A i, j \in Idx : (j < i /\ unit[i] # "idle") => unit[j] = "done"

\* C6 as stated: sequential order, and the run ends only when every locator
\* has been attempted.
C6_AllAttempted ==
  strategy = "sync" => InOrder /\ (Ended => \A i \in Idx : fetchCount[i] = 1)

\* C6 amended: sequential order; the run ends normally only when every
\* locator has been attempted and has returned, whatever failures were
\* reported; it ends early only by an exception raised by the current
\* locator's unit, the later locators being left unattempted.
C6_Sequential ==
  strategy = "sync" =>
    /\ InOrder
    /\ opc = "done" => \A i \in Idx : fetchCount[i] = 1 /\ unit[i] = "done"
    /\ opc = "crashed" => unit[cur] = "raised" /\ \A i \in Idx : i > cur => fetchCount[i] = 0

\* A sequential run that ended normally after a fetch failure and an
\* extraction failure on locators before the last one.
C6_Witness ==
  /\ strategy = "sync" /\ opc = "done"
  /\ \E i, j \in Idx : /\ i < N /\ j < N
                       /\ fetchState[i] = "None"
                       /\ extractState[j] = "None"

\* C7 as stated: the archive file of a locator with no fetch and no
\* extraction in progress is absent.
C7_AbsentWhenIdle ==
  \A i \in Idx : ~InProgress(i) => zip[filepath(i)] = "absent"

\* C7 amended: the archive file of a locator with no fetch and no extraction
\* in progress is absent, except a partial file left by a fetch that failed,
\* raised or was cancelled after opening it, and a complete file whose
\* removal failed in the except block of extract_zip_file.
C7_AbsentOrLeftover ==
  \A i \in Idx : (~InProgress(i) /\ zip[filepath(i)] # "absent") =>
    \/ /\ zip[filepath(i)] = "partial"
       /\ extractCount[i] = 0
       /\ (cause[i] \in {"stream", "write"} \/ fetchState[i] = "cancelled")
    \/ /\ zip[filepath(i)] = "complete"
       /\ extractState[i] = "raised"

\* A run that ended normally and left a partial archive behind, next to an
\* archive that was extracted and removed.
C7_Witness ==
  /\ opc = "done"
  /\ \E i \in Idx : zip[filepath(i)] = "partial"
  /\ \E i \in Idx : Extracted(i) /\ zip[filepath(i)] = "absent"

\* C8: a fetch answered by an HTTP error status returns None with one
\* message, raises nothing, leaves no file at the target path, and
\* extract_zip_file is not called for the locator.
C8_HttpError ==
  \A i \in Idx : cause[i] = "http" =>
    /\ fetchState[i] = "None" /\ unit[i] = "done"
    /\ failures[i] = 1
    /\ zip[filepath(i)] = "absent"
    /\ extractCount[i] = 0 /\ extractState[i] = "notcalled"

\* A finished cooperative run in which one fetch was answered by an HTTP
\* error status and another locator was extracted.
C8_Witness ==
  /\ strategy = "async" /\ opc = "done"
  /\ \E i \in Idx : cause[i] = "http"
  /\ \E i \in Idx : Extracted(i)

\* A locator reached an outcome of its own: extracted, failed, or its unit
\* raised.
OwnOutcome(i) == Extracted(i) \/ FailureRecorded(i) \/ unit[i] = "raised"

\* C9 as stated: in the pooled and the cooperative strategy, when the run
\* has finished, a locator answered 404 has exactly one failure record and
\* every other locator has reached an outcome of its own.
C9_MissingDoesNotBlock ==
  (strategy \in {"threaded", "async"} /\ Ended) =>
    \A i \in Idx : cause[i] = "http" =>
      /\ failures[i] = 1
      /\ \A j \in Idx : j # i => OwnOutcome(j)

\* C10: in the pooled strategy at most max_workers units are executing.
C10_AtMostThree ==
  strategy = "threaded" => Cardinality(Busy) <= MaxWorkers

\* Three units are executing and a fourth one waits in the queue.
C10_Witness ==
  /\ strategy = "threaded"
  /\ Cardinality(Busy) = MaxWorkers
  /\ Queued # {}

\* C11: in the pooled strategy the units are submitted in list order (a
\* unit runs only once it and every unit before it in the list has been
\* submitted, and the queue hands them out in that order), a unit is one
\* locator's fetch followed by its extraction, and the run ends only with
\* every unit finished; the order in which units finish is free.
C11_SubmittedInOrder ==
  strategy = "threaded" =>
    /\ \A i \in Idx : unit[i] # "idle" => i <= submitted
    /\ \A i, j \in Idx : (i < j /\ unit[j] # "idle") => unit[i] # "idle"
    /\ \A i \in Idx : extractCount[i] > 0 => (fetchCount[i] = 1 /\ fetchState[i] = "path")
    /\ Ended => \A i \in Idx : Finished(i)

\* A unit submitted later has finished while an earlier one is still running.
C11_Witness ==
  /\ strategy = "threaded"
  /\ \E i, j \in Idx : i < j /\ unit[j] = "done" /\ unit[i] \in {"connecting", "writing"}

\* C12: main() selects the orchestrator from stdin. When stdin is no
\* terminal it runs the sequential one without prompting. When it is a
\* terminal it prompts, and the line read selects: "2" (surrounding blanks
\* aside) the pooled one, "3" the cooperative one, anything else ("1", the
\* empty line, other text, end of file) the sequential one.
PooledLines == {<<"2">>, <<" ", "2">>}
CooperativeLines == {<<"3">>, <<"3", " ">>}

C12_Selection ==
  [][opc = "main" =>
       /\ prompted' = input.tty
       /\ started' = 1
       /\ strategy' =
            IF ~input.tty \/ input.eof THEN "sync"
            ELSE IF input.line \in PooledLines THEN "threaded"
            ELSE IF input.line \in CooperativeLines THEN "async"
            ELSE "sync"
       /\ opc' = IF strategy' = "sync" THEN "loop"
                 ELSE IF strategy' = "threaded" THEN "submit" ELSE "gather"]_vars

\* The pooled orchestrator was selected at the prompt and has submitted a unit.
C12_Witness == strategy = "threaded" /\ prompted /\ started = 1 /\ submitted > 0

\* C13: executing the sequential strategy twice in a row, the remote
\* resources being the same, leaves the downloads directory after the
\* second execution as it was after the first, and the second execution
\* raises no error.
C13_SecondRunSame ==
  run = 2 =>
    /\ opc # "crashed"
    /\ opc = "done" => Directory = prevDir

\* The second execution has ended after extracting an archive again, next
\* to a locator that failed both times.
C13_Witness ==
  /\ run = 2 /\ opc = "done"
  /\ prevDir.files # {}
  /\ \E i \in Idx : Extracted(i) /\ namelist[i] # <<>>
  /\ \E i \in Idx : FailureRecorded(i) /\ zip[filepath(i)] = "partial"

\* C19: in one execution of main() at most one orchestrator is started,
\* also when the running one is interrupted.
C19_AtMostOneOrchestrator == started <= 1

C15_WriteFailureRaises ==
  \A i \in Idx : cause[i] = "write" =>
    (fetchState[i] = "raised" /\ unit[i] = "raised" /\ failures[i] = 0)

\* C15 (amended): in the sequential and the pooled strategy a failure to
\* write the payload leaves download_file_sync as an exception and no
\* failure is recorded; in the cooperative strategy download_file_async
\* catches it, records a fetch failure and returns None, and the task ends
\* without an exception and without an extraction.
C15_WriteFailure ==
  \A i \in Idx : cause[i] = "write" =>
    IF strategy = "async"
      THEN fetchState[i] = "None" /\ unit[i] = "done" /\ failures[i] = 1
           /\ extractCount[i] = 0
      ELSE fetchState[i] = "raised" /\ unit[i] = "raised" /\ failures[i] = 0

\* The write failed under the cooperative strategy and the run ended normally.
C15_Witness ==
  /\ \E i \in Idx : cause[i] = "write"
  /\ strategy = "async"
  /\ opc = "done"

\* C16: in the cooperative strategy an extraction does not run on the event
\* loop: while the extraction of one locator is running, the fetch task of
\* any other locator that is waiting for its response or writing its body
\* can take its next step.
C16_LoopNotBlocked ==
  (strategy = "async" /\ opc = "gather") =>
    \A i, j \in Idx :
      (extractState[i] = "running" /\ i # j) =>
        /\ unit[j] = "connecting" => ENABLED download_file_get(j, "ok")
        /\ unit[j] = "writing" => ENABLED download_file_write(j, "ok")

\* An extraction is running while another locator's fetch is under way.
C16_Witness ==
  /\ strategy = "async" /\ opc = "gather"
  /\ \E i, j \in Idx : /\ extractState[i] = "running" /\ unit[i] = "extracting"
                       /\ unit[j] = "writing"

\* C17: every step that creates, completes or deletes an archive file is the
\* step of one unit, which shares its archive path with no other unit
\* (distinct locators have distinct final segments) and leaves the archive
\* of every other unit as it was.
Stepped(i) == unit'[i] # unit[i] \/ extractState'[i] # extractState[i]

ArchivePath == [i \in Idx |-> filepath(i)]

C17_OwnArchiveOnly ==
  [][zip' # zip =>
       \E i \in Idx :
         /\ Stepped(i)
         /\ \A j \in Idx \ {i} : /\ ~Stepped(j)
                                  /\ ArchivePath[j] # ArchivePath[i]
                                  /\ zip'[ArchivePath[j]] = zip[ArchivePath[j]]]_vars

\* Two units hold their archive files at the same time.
C17_Witness ==
  /\ strategy = "threaded"
  /\ \E i, j \in Idx : /\ i # j
                       /\ unit[i] = "writing" /\ zip[filepath(i)] = "partial"
                       /\ unit[j] = "extracting" /\ zip[filepath(j)] = "complete"

\* C18: extract_zip_file is called for a locator exactly when its fetch
\* returned a path, hence after the whole payload was written and the file
\* closed, at most once, and never while the fetch is under way.
C18_ExtractAfterFetch ==
  \A i \in Idx :
    /\ extractCount[i] <= 1
    /\ extractCount[i] = 1 <=> fetchState[i] = "path"
    /\ extractState[i] # "notcalled" <=> extractCount[i] = 1
    /\ extractState[i] = "running" =>
         (zip[filepath(i)] = "complete" /\ unit[i] \notin {"connecting", "writing"})
    /\ fetchState[i] \in {"notstarted", "inflight"} => extractState[i] = "notcalled"

\* One locator's archive is being extracted, another's fetch returned None
\* and its unit ended without an extraction.
C18_Witness ==
  \E i, j \in Idx :
    /\ extractState[i] = "running" /\ fetchState[i] = "path"
    /\ fetchState[j] = "None" /\ unit[j] = "done" /\ extractCount[j] = 0

\* C20: in the cooperative strategy the session is open while any fetch is
\* under way: it is opened before the first fetch starts and closed only
\* after every task has ended, also when a task ended with an exception.
C20_SessionOpenWhileFetching ==
  strategy = "async" => \A i \in Idx : fetchState[i] = "inflight" => sessionOpen

====
